---- MODULE Spec2Model ----
(***************************************************************************)
(* Model of InteractiveSelector (src/gcp_switcher/cli.py): the searchable, *)
(* scrollable terminal picker.  Strings are sequences of one-character     *)
(* strings; a byte of standard input is named by a short string ("x1b" is  *)
(* ESC, "cr" is carriage return, "x7f" is DEL, "x03" is Ctrl-C, "x01" is a *)
(* non-printable control byte).  Indexes are 0-based as in the source, so  *)
(* the selected item is items[selected_index + 1].                         *)
(***************************************************************************)
EXTENDS Integers, Sequences, FiniteSets, TLC

VARIABLES
    original_items,  \* self.original_items: the candidate list
    items,           \* self.items: the filtered view
    current_marker,  \* self.current_marker (<<>> stands for None and for "")
    selected_index,  \* self.selected_index
    scroll_offset,   \* self.scroll_offset
    search_mode,     \* self.search_mode
    search_query,    \* self.search_query
    pc,              \* position of select(): start, render, getkey, read1..3, dispatch, done
    key,             \* local `key` of select(), "" until the first key is read
    stdin,           \* bytes delivered by the terminal and not yet read
    tty,             \* input mode of the terminal driver
    old_settings,    \* local `old_settings` of _get_key, "" when not in scope
    prior_tty,       \* input mode when select() was called
    cursor,          \* "shown" or "hidden"
    rows,            \* terminal height seen by the last render
    outcome,         \* Running, Confirmed, Cancelled (returned None) or Raised
    result,          \* the value returned by select() when Confirmed
    hid,             \* hide_cursor() has been called
    drew,            \* clear_screen()/_render() have written to the terminal
    warned,          \* print_warning() has been called
    nread,           \* bytes read from standard input so far, capped at 1
    downs            \* DOWN events so far if the session saw nothing else, else -1

vars == <<original_items, items, current_marker, selected_index, scroll_offset,
          search_mode, search_query, pc, key, stdin, tty, old_settings,
          prior_tty, cursor, rows, outcome, result, hid, drew, warned, nread,
          downs>>

selector == <<original_items, items, current_marker, selected_index,
              scroll_offset, search_mode, search_query>>

-----------------------------------------------------------------------------
(* Bounds and program constants *)

MaxQuery == 2
MaxDowns == 5
SmallRows == 18
DefaultRows == 24
ReservedRows == 16
MinVisible == 3

Min(a, b) == IF a < b THEN a ELSE b
Max(a, b) == IF a > b THEN a ELSE b
SetMin(S) == CHOOSE x \in S : \A y \in S : x <= y

-----------------------------------------------------------------------------
(* Inputs *)

s_ab == <<"a", "b">>
s_b  == <<"b">>
s_ja == <<"j", "a">>
s_kq == <<"k", "q">>
s_a  == <<"a">>
s_Ba == <<"B", "a">>
s_q  == <<"q">>

CandidateLists ==
    { <<>>,
      <<s_q>>,
      <<s_a, s_Ba, <<>> >>,
      <<s_ab, s_b, s_ja, s_b, s_kq>> }

Markers == { <<>>, s_b, s_kq }

TermRows == { SmallRows, DefaultRows }

TtyModes == { "cooked", "cbreak" }

PrintableBytes == { "A", "B", "C", "D", "Q", "[", "3", "~", "q", "j", "k", "/" }
Bytes == PrintableBytes \cup { "x1b", "cr", "x7f", "x03", "x01" }

\* The byte sequences one keypress delivers.
Keypresses ==
    { <<"x1b">>,                       \* Escape
      <<"x1b", "[", "A">>,             \* arrow up
      <<"x1b", "[", "B">>,             \* arrow down
      <<"x1b", "[", "C">>,             \* arrow right
      <<"x1b", "[", "D">>,             \* arrow left
      <<"x1b", "[", "3", "~">>,        \* Delete
      <<"cr">>, <<"x7f">>, <<"x03">>, <<"x01">>,
      <<"/">>, <<"q">>, <<"Q">>, <<"j">>, <<"k">>, <<"B">> }

-----------------------------------------------------------------------------
(* Pure helpers *)

\* str.lower() on one character
LowerChar(c) ==
    CASE c = "A" -> "a" [] c = "B" -> "b" [] c = "C" -> "c" [] c = "D" -> "d" [] c = "Q" -> "q"
      [] OTHER -> c

Lower(s) == [i \in 1..Len(s) |-> LowerChar(s[i])]

StartsWith(t, s) ==
    Len(t) <= Len(s) /\ SubSeq(s, 1, Len(t)) = t

\* Python `t in s` on strings
Contains(t, s) ==
    \E k \in 0..(Len(s) - Len(t)) : SubSeq(s, k + 1, k + Len(t)) = t

\* key.isprintable() for a one-character key
IsPrintable(ch) == ch \in PrintableBytes

FilterBroken(orig, query) ==
    IF query = <<>> THEN orig
    ELSE SelectSeq(orig, LAMBDA item : Contains(query, item))

\* the list assigned to self.items by _filter_items
FilterItems(orig, query) ==
    IF query = <<>> THEN orig
    ELSE SelectSeq(orig, LAMBDA item : Contains(Lower(query), Lower(item)))

ClampBroken(sel, view) == Min(sel, Len(view))

\* the index assigned to self.selected_index by _filter_items
ClampIndex(sel, view) == Min(sel, Max(0, Len(view) - 1))

\* the index __init__ leaves in self.selected_index
InitialIndex(list, marker) ==
    IF marker = <<>> THEN 0
    ELSE LET hits == { i \in 1..Len(list) :
                          Contains(marker, list[i]) \/ list[i] = marker }
         IN  IF hits = {} THEN 0 ELSE SetMin(hits) - 1

MaxVisibleNoFloor(n, r) == Min(n, r - ReservedRows)

\* max_visible of _render
MaxVisible(n, r) == Max(Min(n, r - ReservedRows), MinVisible)

NewOffsetBroken(sel, off, mv) ==
    IF sel < off THEN sel
    ELSE IF sel >= off + mv THEN sel - mv
    ELSE off

\* the scroll offset _render leaves in self.scroll_offset
NewOffset(sel, off, mv) ==
    IF sel < off THEN sel
    ELSE IF sel >= off + mv THEN sel - mv + 1
    ELSE off

-----------------------------------------------------------------------------
(* Construction *)

Init ==
    /\ original_items \in CandidateLists
    /\ items = original_items
    /\ current_marker \in Markers
    /\ selected_index = InitialIndex(original_items, current_marker)
    /\ scroll_offset = 0
    /\ search_mode = FALSE
    /\ search_query = <<>>
    /\ pc = "start"
    /\ key = ""
    /\ stdin = <<>>
    /\ tty \in TtyModes
    /\ old_settings = ""
    /\ prior_tty = tty
    /\ cursor = "shown"
    /\ rows = DefaultRows
    /\ outcome = "Running"
    /\ result = <<>>
    /\ hid = FALSE
    /\ drew = FALSE
    /\ warned = FALSE
    /\ nread = 0
    /\ downs = 0

-----------------------------------------------------------------------------
(* select(): entry *)

StartHidesFirst ==
    /\ pc = "start"
    /\ cursor' = "hidden"
    /\ hid' = TRUE
    /\ IF items = <<>>
       THEN /\ warned' = TRUE
            /\ outcome' = "Cancelled"
            /\ pc' = "done"
       ELSE /\ pc' = "render"
            /\ UNCHANGED <<warned, outcome>>
    /\ UNCHANGED <<selector, key, stdin, tty, old_settings, prior_tty, rows,
                   result, drew, nread, downs>>

\* `if not self.items: print_warning(...); return None`, else hide_cursor()
Start ==
    /\ pc = "start"
    /\ IF items = <<>>
       THEN /\ warned' = TRUE
            /\ outcome' = "Cancelled"
            /\ pc' = "done"
            /\ UNCHANGED <<cursor, hid>>
       ELSE /\ cursor' = "hidden"
            /\ hid' = TRUE
            /\ pc' = "render"
            /\ UNCHANGED <<warned, outcome>>
    /\ UNCHANGED <<selector, key, stdin, tty, old_settings, prior_tty, rows,
                   result, drew, nread, downs>>

-----------------------------------------------------------------------------
(* The loop body: clear_screen(); self._render() *)

Render ==
    /\ pc = "render"
    /\ \E r \in TermRows :
          /\ rows' = r
          /\ scroll_offset' =
                NewOffset(selected_index, scroll_offset, MaxVisible(Len(items), r))
    /\ drew' = TRUE
    /\ pc' = "getkey"
    /\ UNCHANGED <<original_items, items, current_marker, selected_index,
                   search_mode, search_query, key, stdin, tty, old_settings,
                   prior_tty, cursor, outcome, result, hid, warned, nread, downs>>

RaiseNoCleanup ==
    /\ outcome' = "Raised"
    /\ pc' = "done"
    /\ UNCHANGED key
    /\ old_settings' = ""
    /\ UNCHANGED <<cursor, tty>>

\* an exception or interrupt leaves select(): _get_key's `finally` restores the
\* input mode if it was saved, select's `except`/`finally` show the cursor
Raise ==
    /\ outcome' = "Raised"
    /\ pc' = "done"
    /\ UNCHANGED key
    /\ tty' = IF old_settings = "" THEN tty ELSE old_settings
    /\ old_settings' = ""
    /\ cursor' = "shown"

\* clear_screen() or _render() raises, or the process is interrupted there
RenderRaise ==
    /\ pc = "render"
    /\ Raise
    /\ drew' \in {drew, TRUE}
    /\ UNCHANGED <<selector, stdin, prior_tty, rows, result, hid, warned,
                   nread, downs>>

-----------------------------------------------------------------------------
(* _get_key *)

\* termios.tcgetattr(fd); tty.setraw(fd)
GetKeyBegin ==
    /\ pc = "getkey"
    /\ old_settings' = tty
    /\ tty' = "raw"
    /\ pc' = "read1"
    /\ UNCHANGED <<selector, key, stdin, prior_tty, cursor, rows, outcome,
                   result, hid, drew, warned, nread, downs>>

\* tcgetattr or setraw raises termios.error (standard input is not a terminal)
RawModeRaise ==
    /\ pc = "getkey"
    /\ Raise
    /\ UNCHANGED <<selector, stdin, prior_tty, rows, result, hid, drew,
                   warned, nread, downs>>

\* the terminal delivers the bytes of one keypress while read(1) blocks
Type ==
    /\ pc \in {"read1", "read2", "read3"}
    /\ stdin = <<>>
    /\ \E k \in Keypresses : stdin' = k
    /\ UNCHANGED <<selector, pc, key, tty, old_settings, prior_tty, cursor,
                   rows, outcome, result, hid, drew, warned, nread, downs>>

DecodeFirstAnyMode(ch, mode) ==
    IF ch = "cr" THEN "ENTER"
    ELSE IF ch = "x7f" THEN "BACKSPACE"
    ELSE IF ch = "x03" THEN "QUIT"
    ELSE IF ch = "/" THEN "SEARCH"
    ELSE IF ch = "q" \/ ch = "Q" THEN "QUIT"
    ELSE IF ch = "j" THEN "DOWN"
    ELSE IF ch = "k" THEN "UP"
    ELSE ch

\* the decoding of a first byte other than ESC (lines 251-268)
DecodeFirst(ch, mode) ==
    IF ch = "cr" THEN "ENTER"
    ELSE IF ch = "x7f" THEN "BACKSPACE"
    ELSE IF ch = "x03" THEN "QUIT"
    ELSE IF ch = "/" THEN "SEARCH"
    ELSE IF ~mode /\ (ch = "q" \/ ch = "Q") THEN "QUIT"
    ELSE IF ~mode /\ ch = "j" THEN "DOWN"
    ELSE IF ~mode /\ ch = "k" THEN "UP"
    ELSE ch

\* the decoding of the byte after ESC [ (lines 241-250)
DecodeThird(ch3) ==
    IF ch3 = "A" THEN "UP"
    ELSE IF ch3 = "B" THEN "DOWN"
    ELSE IF ch3 = "C" THEN "RIGHT"
    ELSE IF ch3 = "D" THEN "LEFT"
    ELSE "ESC"

\* `return k` inside the try: the finally clause restores the input mode
ReturnKey(k) ==
    /\ key' = k
    /\ tty' = old_settings
    /\ old_settings' = ""
    /\ pc' = "dispatch"

\* ch = sys.stdin.read(1)
Read1 ==
    /\ pc = "read1"
    /\ stdin # <<>>
    /\ stdin' = Tail(stdin)
    /\ nread' = 1
    /\ IF Head(stdin) = "x1b"
       THEN /\ pc' = "read2"
            /\ UNCHANGED <<key, tty, old_settings>>
       ELSE ReturnKey(DecodeFirst(Head(stdin), search_mode))
    /\ UNCHANGED <<selector, prior_tty, cursor, rows, outcome, result, hid,
                   drew, warned, downs>>

\* ch2 = sys.stdin.read(1)
Read2 ==
    /\ pc = "read2"
    /\ stdin # <<>>
    /\ stdin' = Tail(stdin)
    /\ IF Head(stdin) = "["
       THEN /\ pc' = "read3"
            /\ UNCHANGED <<key, tty, old_settings>>
       ELSE ReturnKey("ESC")
    /\ UNCHANGED <<selector, prior_tty, cursor, rows, outcome, result, hid,
                   drew, warned, nread, downs>>

\* ch3 = sys.stdin.read(1)
Read3 ==
    /\ pc = "read3"
    /\ stdin # <<>>
    /\ stdin' = Tail(stdin)
    /\ ReturnKey(DecodeThird(Head(stdin)))
    /\ UNCHANGED <<selector, prior_tty, cursor, rows, outcome, result, hid,
                   drew, warned, nread, downs>>

\* read(1) raises or the process is interrupted while it blocks
ReadRaise ==
    /\ pc \in {"read1", "read2", "read3"}
    /\ Raise
    /\ UNCHANGED <<selector, stdin, prior_tty, rows, result, hid, drew,
                   warned, nread, downs>>

-----------------------------------------------------------------------------
(* select(): the transition on the decoded key *)

FilterStepResets(q) ==
    /\ search_query' = q
    /\ items' = FilterItems(original_items, q)
    /\ selected_index' = 0
    /\ scroll_offset' = 0

FilterStepKeepsOffset(q) ==
    /\ search_query' = q
    /\ items' = FilterItems(original_items, q)
    /\ selected_index' = ClampIndex(selected_index, FilterItems(original_items, q))
    /\ UNCHANGED scroll_offset

\* self._filter_items() with the query q
FilterStep(q) ==
    /\ search_query' = q
    /\ items' = FilterItems(original_items, q)
    /\ selected_index' = ClampIndex(selected_index, FilterItems(original_items, q))
    /\ scroll_offset' = 0

\* the iteration ends and the loop renders again
Loop ==
    /\ pc' = "render"
    /\ UNCHANGED key
    /\ UNCHANGED <<original_items, current_marker, stdin, tty, old_settings,
                   prior_tty, cursor, rows, outcome, result, hid, drew, warned,
                   nread>>

\* show_cursor(); clear_screen(); return val
Return(oc, val) ==
    /\ outcome' = oc
    /\ result' = val
    /\ pc' = "done"
    /\ UNCHANGED key
    /\ cursor' = "shown"
    /\ UNCHANGED <<selector, stdin, tty, old_settings, prior_tty, rows, hid,
                   drew, warned, nread>>

Dispatching == pc = "dispatch"

\* the count of DOWN events of a session made of DOWN events only
CountDown == IF downs >= 0 /\ downs < MaxDowns THEN downs + 1 ELSE -1

SearchEnterConfirms ==
    /\ Dispatching /\ search_mode /\ key = "ENTER"
    /\ items # <<>>
    /\ Return("Confirmed", items[selected_index + 1])
    /\ downs' = -1

\* search mode, ENTER: self.search_mode = False
SearchEnter ==
    /\ Dispatching /\ search_mode /\ key = "ENTER"
    /\ search_mode' = FALSE
    /\ Loop
    /\ downs' = -1
    /\ UNCHANGED <<items, selected_index, scroll_offset, search_query>>

SearchEscKeepsQuery ==
    /\ Dispatching /\ search_mode /\ key = "ESC"
    /\ search_mode' = FALSE
    /\ Loop
    /\ downs' = -1
    /\ UNCHANGED <<items, selected_index, scroll_offset, search_query>>

\* search mode, ESC: leave search mode, clear the query, refilter
SearchEsc ==
    /\ Dispatching /\ search_mode /\ key = "ESC"
    /\ search_mode' = FALSE
    /\ FilterStep(<<>>)
    /\ Loop
    /\ downs' = -1

SearchBackspaceClears ==
    /\ Dispatching /\ search_mode /\ key = "BACKSPACE"
    /\ IF search_query # <<>>
       THEN FilterStep(<<>>)
       ELSE UNCHANGED <<items, selected_index, scroll_offset, search_query>>
    /\ Loop
    /\ downs' = -1
    /\ UNCHANGED search_mode

\* search mode, BACKSPACE: drop the last character of a non-empty query
SearchBackspace ==
    /\ Dispatching /\ search_mode /\ key = "BACKSPACE"
    /\ IF search_query # <<>>
       THEN FilterStep(SubSeq(search_query, 1, Len(search_query) - 1))
       ELSE UNCHANGED <<items, selected_index, scroll_offset, search_query>>
    /\ Loop
    /\ downs' = -1
    /\ UNCHANGED search_mode

\* search mode, a printable character: append it to the query
SearchChar ==
    /\ Dispatching /\ search_mode
    /\ key \in Bytes /\ IsPrintable(key)
    /\ Len(search_query) < MaxQuery
    /\ FilterStep(Append(search_query, key))
    /\ Loop
    /\ downs' = -1
    /\ UNCHANGED search_mode

SearchOtherQuits ==
    /\ Dispatching /\ search_mode
    /\ key \notin {"ENTER", "ESC", "BACKSPACE"}
    /\ ~(key \in Bytes /\ IsPrintable(key))
    /\ IF key = "QUIT"
       THEN Return("Cancelled", <<>>)
       ELSE /\ Loop
            /\ UNCHANGED <<items, selected_index, scroll_offset, search_mode,
                           search_query>>
    /\ downs' = -1

\* search mode, any other key: no branch matches
SearchOther ==
    /\ Dispatching /\ search_mode
    /\ key \notin {"ENTER", "ESC", "BACKSPACE"}
    /\ ~(key \in Bytes /\ IsPrintable(key))
    /\ Loop
    /\ downs' = -1
    /\ UNCHANGED <<items, selected_index, scroll_offset, search_mode, search_query>>

\* browsing, UP
BrowseUp ==
    /\ Dispatching /\ ~search_mode /\ key = "UP"
    /\ selected_index' = Max(0, selected_index - 1)
    /\ Loop
    /\ downs' = -1
    /\ UNCHANGED <<items, scroll_offset, search_mode, search_query>>

DownWraps(sel, view) ==
    IF view # <<>> THEN (sel + 1) % Len(view) ELSE 0

\* the index DOWN assigns to self.selected_index
DownIndex(sel, view) ==
    IF view # <<>> THEN Min(Len(view) - 1, sel + 1) ELSE 0

\* browsing, DOWN
BrowseDown ==
    /\ Dispatching /\ ~search_mode /\ key = "DOWN"
    /\ selected_index' = DownIndex(selected_index, items)
    /\ Loop
    /\ downs' = CountDown
    /\ UNCHANGED <<items, scroll_offset, search_mode, search_query>>

BrowseEnterFirst ==
    /\ Dispatching /\ ~search_mode /\ key = "ENTER"
    /\ IF items # <<>>
       THEN /\ Return("Confirmed", items[1])
            /\ UNCHANGED downs
       ELSE /\ Loop
            /\ downs' = -1
            /\ UNCHANGED <<items, selected_index, scroll_offset, search_mode,
                           search_query>>

BrowseEnterOriginal ==
    /\ Dispatching /\ ~search_mode /\ key = "ENTER"
    /\ IF items # <<>>
       THEN /\ Return("Confirmed", original_items[selected_index + 1])
            /\ UNCHANGED downs
       ELSE /\ Loop
            /\ downs' = -1
            /\ UNCHANGED <<items, selected_index, scroll_offset, search_mode,
                           search_query>>

\* browsing, ENTER: return the selected item of a non-empty view
BrowseEnter ==
    /\ Dispatching /\ ~search_mode /\ key = "ENTER"
    /\ IF items # <<>>
       THEN /\ Return("Confirmed", items[selected_index + 1])
            /\ UNCHANGED downs
       ELSE /\ Loop
            /\ downs' = -1
            /\ UNCHANGED <<items, selected_index, scroll_offset, search_mode,
                           search_query>>

\* browsing, SEARCH: self.search_mode = True
BrowseSearch ==
    /\ Dispatching /\ ~search_mode /\ key = "SEARCH"
    /\ search_mode' = TRUE
    /\ Loop
    /\ downs' = -1
    /\ UNCHANGED <<items, selected_index, scroll_offset, search_query>>

BrowseCancelAtOnce ==
    /\ Dispatching /\ ~search_mode /\ key \in {"QUIT", "ESC"}
    /\ Return("Cancelled", <<>>)
    /\ downs' = -1

\* browsing, QUIT or ESC: clear a non-empty query, else return None
BrowseCancel ==
    /\ Dispatching /\ ~search_mode /\ key \in {"QUIT", "ESC"}
    /\ IF search_query # <<>>
       THEN /\ FilterStep(<<>>)
            /\ Loop
            /\ UNCHANGED search_mode
       ELSE Return("Cancelled", <<>>)
    /\ downs' = -1

\* browsing, any other key: no branch matches
BrowseOther ==
    /\ Dispatching /\ ~search_mode
    /\ key \notin {"UP", "DOWN", "ENTER", "SEARCH", "QUIT", "ESC"}
    /\ Loop
    /\ downs' = -1
    /\ UNCHANGED <<items, selected_index, scroll_offset, search_mode, search_query>>

-----------------------------------------------------------------------------

Next ==
    \/ Start
    \/ Render
    \/ RenderRaise
    \/ GetKeyBegin
    \/ RawModeRaise
    \/ Type
    \/ Read1
    \/ Read2
    \/ Read3
    \/ ReadRaise
    \/ SearchEnter
    \/ SearchEsc
    \/ SearchBackspace
    \/ SearchChar
    \/ SearchOther
    \/ BrowseUp
    \/ BrowseDown
    \/ BrowseEnter
    \/ BrowseSearch
    \/ BrowseCancel
    \/ BrowseOther

Spec == Init /\ [][Next]_vars

-----------------------------------------------------------------------------
(* _filter_items applied to arbitrary lists and queries *)

MaxLen == 3

FilterPool == { s_ab, s_b, s_Ba, s_q, <<>> }
QueryChars == { "a", "b", "B", "Q" }

SeqsUpTo(S, n) == UNION { [1..k -> S] : k \in 0..n }

InitFilter ==
    /\ original_items \in SeqsUpTo(FilterPool, MaxLen)
    /\ items = original_items
    /\ current_marker = <<>>
    /\ selected_index \in 0..Max(0, Len(original_items) - 1)
    /\ scroll_offset = 0
    /\ search_mode = TRUE
    /\ search_query \in SeqsUpTo(QueryChars, MaxQuery)
    /\ pc = "filter"
    /\ key = ""
    /\ stdin = <<>>
    /\ tty = "cooked"
    /\ old_settings = ""
    /\ prior_tty = "cooked"
    /\ cursor = "hidden"
    /\ rows = DefaultRows
    /\ outcome = "Running"
    /\ result = <<>>
    /\ hid = TRUE
    /\ drew = TRUE
    /\ warned = FALSE
    /\ nread = 1
    /\ downs = -1

\* one call of self._filter_items()
ApplyFilter ==
    /\ pc = "filter"
    /\ FilterStep(search_query)
    /\ pc' = "filtered"
    /\ UNCHANGED <<original_items, current_marker, search_mode, key, stdin,
                   tty, old_settings, prior_tty, cursor, rows, outcome, result,
                   hid, drew, warned, nread, downs>>

NextFilter == ApplyFilter

SpecFilter == InitFilter /\ [][NextFilter]_vars

-----------------------------------------------------------------------------
(* Vocabulary of the properties *)

CasePairs ==
    { <<"a", "A">>, <<"b", "B">>, <<"c", "C">>, <<"d", "D">>, <<"q", "Q">> }

\* two characters equal up to case
SameLetter(x, y) == x = y \/ <<x, y>> \in CasePairs \/ <<y, x>> \in CasePairs

\* text has q as a case-insensitive substring
Matches(text, q) ==
    \E k \in 0..(Len(text) - Len(q)) :
        \A i \in 1..Len(q) : SameLetter(text[k + i], q[i])

MatchingPositions(list, q) == { i \in 1..Len(list) : Matches(list[i], q) }

\* view lists exactly the matching candidates, in their order, duplicates kept
IsFilterOf(view, list, q) ==
    LET M == MatchingPositions(list, q)
    IN  /\ Len(view) = Cardinality(M)
        /\ \A i \in M : view[Cardinality({ j \in M : j <= i })] = list[i]

\* the index of the first candidate equal to the marker, else 0
MarkerItemIndex(list, marker) ==
    LET hits == { i \in 1..Len(list) : list[i] = marker }
    IN  IF marker = <<>> \/ hits = {} THEN 0 ELSE SetMin(hits) - 1

\* a render has happened and no key has been handled since
AfterRender == pc \in {"getkey", "read1", "read2", "read3", "dispatch"}

BrowsingKey(k) == pc = "dispatch" /\ ~search_mode /\ key = k
SearchKey(k) == pc = "dispatch" /\ search_mode /\ key = k

-----------------------------------------------------------------------------
(* Properties *)

\* C1: the selected index is within the filtered view whenever the view is
\* non-empty, and is 0 whenever the view is empty.
C1_SelectedIndexInRange ==
    IF items # <<>>
    THEN 0 <= selected_index /\ selected_index < Len(items)
    ELSE selected_index = 0

\* a query that matches nothing has emptied the view of a running session
C1_Witness ==
    /\ pc = "render" /\ outcome = "Running"
    /\ search_query # <<>> /\ items = <<>> /\ original_items # <<>>
    /\ selected_index = 0

\* C2: after every render the window of visible_count items starting at
\* scroll_offset contains the selected index.
C2_ViewportContainsSelection ==
    AfterRender =>
        /\ scroll_offset <= selected_index
        /\ selected_index <= scroll_offset + MaxVisible(Len(items), rows) - 1

\* a render has scrolled down so that the selection is the last visible line
C2_Witness ==
    /\ AfterRender
    /\ scroll_offset > 0
    /\ selected_index = scroll_offset + MaxVisible(Len(items), rows) - 1

\* C3: the filtered view is always the filter of the candidate list by the
\* current query, and no step changes the candidate list.
C3_ViewIsFilterOfCandidates ==
    /\ [](IsFilterOf(items, original_items, search_query))
    /\ [][original_items' = original_items]_vars

\* a query has narrowed a five-item list to three items
C3_Witness ==
    /\ search_query # <<>>
    /\ Len(original_items) = 5 /\ Len(items) = 3
    /\ pc = "render"

\* C4: _filter_items yields exactly the candidates containing the query as a
\* case-insensitive substring, in order and with duplicates, and the list
\* itself for the empty query.
C4_FilterIsExact ==
    pc = "filtered" =>
        /\ IsFilterOf(items, original_items, search_query)
        /\ search_query = <<>> => items = original_items

\* an upper-case query has kept both copies of a duplicated lower-case item
C4_Witness ==
    /\ pc = "filtered"
    /\ search_query = <<"B">>
    /\ original_items = <<s_b, s_q, s_b>>
    /\ items = <<s_b, s_b>>

EnterStep ==
    BrowsingKey("ENTER") =>
        IF items # <<>>
        THEN /\ pc' = "done" /\ outcome' = "Confirmed"
             /\ result' = items[selected_index + 1]
        ELSE pc' = "render" /\ outcome' = "Running"

DownsThenEnter ==
    outcome = "Confirmed" /\ downs >= 0 /\ current_marker = <<>> =>
        result = original_items[Min(downs, Len(original_items) - 1) + 1]

\* C5: browsing ENTER returns the selected item of a non-empty view and keeps
\* the session running on an empty view; with no marker, n DOWN events then
\* ENTER return candidate min(n, len - 1).
C5_EnterConfirmsSelected == [][EnterStep]_vars /\ []DownsThenEnter

\* DOWN, DOWN, ENTER on five candidates has returned the third
C5_Witness ==
    /\ outcome = "Confirmed" /\ downs = 2 /\ current_marker = <<>>
    /\ result = s_ja

CancelStep ==
    (BrowsingKey("QUIT") \/ BrowsingKey("ESC")) =>
        IF search_query # <<>>
        THEN /\ search_query' = <<>> /\ items' = original_items
             /\ ~search_mode' /\ pc' = "render" /\ outcome' = "Running"
        ELSE pc' = "done" /\ outcome' = "Cancelled"

\* C6: browsing QUIT or ESC with a query clears it, restores the full list
\* and keeps browsing; with an empty query it cancels the session.
C6_CancelClearsQueryFirst == [][CancelStep]_vars

\* a QUIT has been handled in browsing mode and the session still runs
C6_Witness ==
    /\ pc = "render" /\ key = "QUIT" /\ ~search_mode /\ outcome = "Running"
    /\ search_query = <<>> /\ items = original_items

SearchEnterStep ==
    SearchKey("ENTER") =>
        /\ ~search_mode' /\ pc' = "render" /\ outcome' = "Running"
        /\ UNCHANGED <<search_query, items, selected_index>>

BetweenKeysStep ==
    pc \in {"render", "getkey", "read1", "read2", "read3"} =>
        UNCHANGED <<search_mode, search_query, items, selected_index>>

ConfirmStep ==
    BrowsingKey("ENTER") /\ items # <<>> =>
        outcome' = "Confirmed" /\ result' = items[selected_index + 1]

\* C7: ENTER in search mode only leaves search mode; the query, the view and
\* the selection stay as they are until the next key is handled, and ENTER
\* in browsing then returns the selected item of the view.
C7_SearchEnterKeepsFilter ==
    [][SearchEnterStep]_vars /\ [][BetweenKeysStep]_vars /\ [][ConfirmStep]_vars

\* ENTER has closed a search whose query keeps a proper part of the list
C7_Witness ==
    /\ pc = "render" /\ key = "ENTER" /\ ~search_mode /\ outcome = "Running"
    /\ search_query # <<>> /\ items # <<>> /\ items # original_items

\* C8: with no candidates select returns None at once: nothing is read or
\* drawn, the cursor is never hidden and the input mode never changes.
C8_EmptyListReturnsAtOnce ==
    original_items = <<>> =>
        /\ pc \in {"start", "done"}
        /\ cursor = "shown" /\ ~hid /\ ~drew /\ nread = 0
        /\ tty = prior_tty /\ old_settings = ""
        /\ pc = "done" => outcome = "Cancelled" /\ warned

\* select has returned on an empty candidate list
C8_Witness == original_items = <<>> /\ pc = "done" /\ outcome = "Cancelled"

\* C9: the session starts browsing, with an empty query and offset 0, on the
\* candidate equal to the marker if there is one, else on index 0.
C9_StartsAtMarkerItem ==
    pc = "start" =>
        /\ ~search_mode /\ search_query = <<>> /\ scroll_offset = 0
        /\ selected_index = MarkerItemIndex(original_items, current_marker)

\* C10: when a session that entered the loop ends, by return or by an
\* exception, the cursor is shown and the input mode is the prior one.
C10_TerminalRestoredOnExit ==
    pc = "done" /\ hid => cursor = "shown" /\ tty = prior_tty

\* a session has ended by an exception after keys were read
C10_Witness ==
    /\ pc = "done" /\ outcome = "Raised"
    /\ hid /\ drew /\ nread = 1 /\ search_query # <<>>
    /\ cursor = "shown" /\ tty = prior_tty

-----------------------------------------------------------------------------
(* What _render writes, as a function of the state it leaves *)

\* actual_index of the lines of visible_items (line 304, lines 310-311)
VisibleIndexes ==
    { i \in 0..(Len(items) - 1) :
         /\ scroll_offset <= i
         /\ i < scroll_offset + MaxVisible(Len(items), rows) }

IsCurrentExact(item) == current_marker # <<>> /\ item = current_marker

\* is_current of _render (line 313)
IsCurrent(item) ==
    /\ current_marker # <<>>
    /\ (Contains(current_marker, item) \/ item = current_marker)

\* the item lines printed with the marker indicator (lines 318-319, 340-341)
MarkedLines == { i \in VisibleIndexes : IsCurrent(items[i + 1]) }

\* the "N more" line above the items is printed (lines 301-308)
MoreAbove == items # <<>> /\ scroll_offset > 0

\* the count it prints
MoreAboveCount == scroll_offset

\* remaining of _render (line 346)
MoreBelowCount == Len(items) - (scroll_offset + MaxVisible(Len(items), rows))

\* the "N more" line below the items is printed (lines 301, 346-348)
MoreBelow == items # <<>> /\ MoreBelowCount > 0

-----------------------------------------------------------------------------
(* The key decoder *)

\* Read3 returns the event of an ESC [ x sequence
SequenceDecoded == pc = "read3" /\ pc' = "dispatch"

OneEventPerSequence ==
    SequenceDecoded =>
        /\ key' = (CASE Head(stdin) = "A" -> "UP"
                     [] Head(stdin) = "B" -> "DOWN"
                     [] Head(stdin) = "C" -> "RIGHT"
                     [] Head(stdin) = "D" -> "LEFT"
                     [] OTHER -> "ESC")
        /\ stdin' = <<>>

\* C11: an escape sequence yields exactly one event (UP, DOWN, RIGHT, LEFT for
\* ESC [ A/B/C/D, ESC for any other) and none of its bytes is left on standard
\* input to be decoded as a later event.
C11_EscapeSequenceIsOneEvent == [][OneEventPerSequence]_vars

\* the steps of the program itself; the terminal's bytes and failures are not
ProgramStep ==
    \/ Start \/ Render \/ GetKeyBegin \/ Read1 \/ Read2 \/ Read3
    \/ SearchEnter \/ SearchEsc \/ SearchBackspace \/ SearchChar \/ SearchOther
    \/ BrowseUp \/ BrowseDown \/ BrowseEnter \/ BrowseSearch \/ BrowseCancel
    \/ BrowseOther

InitOneItem ==
    /\ Init
    /\ original_items = <<s_q>>
    /\ current_marker = <<>>
    /\ tty = "cooked"

\* a session on one candidate in which the program always takes its next step
\* when it can; nothing obliges the user to press another key
SpecLive == InitOneItem /\ [][Next]_vars /\ WF_vars(ProgramStep)

\* C12: once the decoder has read ESC it emits an event, even if no further
\* byte arrives.
C12_LoneEscEmitsEvent == (pc = "read2") ~> (pc = "dispatch" \/ pc = "done")

-----------------------------------------------------------------------------
(* Letters, marker lines and raw-mode failure *)

Letters == { "q", "j", "k" }

\* Read1 returns the event of one of the letters q, j, k
LetterDecoded ==
    pc = "read1" /\ stdin # <<>> /\ Head(stdin) \in Letters /\ pc' = "dispatch" =>
        key' = IF search_mode THEN Head(stdin)
               ELSE CASE Head(stdin) = "q" -> "QUIT"
                      [] Head(stdin) = "j" -> "DOWN"
                      [] Head(stdin) = "k" -> "UP"

\* a letter handled in search mode joins the query; the index changes only
\* when the narrowed view no longer reaches it
LetterTyped ==
    pc = "dispatch" /\ search_mode /\ key \in Letters =>
        /\ search_query' = Append(search_query, key)
        /\ search_mode' /\ pc' = "render" /\ outcome' = "Running"
        /\ selected_index' <= selected_index
        /\ selected_index < Len(items') => selected_index' = selected_index

\* C13: q, j and k are QUIT, DOWN and UP in browsing mode; in search mode they
\* are literal characters appended to the query, which neither navigate nor
\* end the session.
C13_LettersDependOnMode == [][LetterDecoded]_vars /\ [][LetterTyped]_vars

\* j has been typed into the query of a search
C13_Witness ==
    /\ pc = "render" /\ search_mode /\ key = "j" /\ outcome = "Running"
    /\ search_query = <<"j">> /\ items = <<s_ja>>

\* text has m as a substring, letter for letter
HasSubstring(text, m) ==
    \E k \in 0..(Len(text) - Len(m)) : \A j \in 1..Len(m) : text[k + j] = m[j]

FirstRawModeFailure == pc = "getkey" /\ key = "" /\ outcome' = "Raised"

NothingDrawnBefore == FirstRawModeFailure => ~drew /\ ~hid

\* C15: when raw mode cannot be engaged the error reaches the caller and
\* nothing has been drawn before: no clear-screen, no render, no hidden cursor.
C15_NoUiBeforeRawModeFailure == [][NothingDrawnBefore]_vars

-----------------------------------------------------------------------------
(* Transitions of the selector *)

QueryChange ==
    search_query' # search_query =>
        /\ scroll_offset' = 0
        /\ selected_index' = Max(0, Min(selected_index, Len(items') - 1))

\* C16: every step that changes the query sets scroll_offset to 0 and clamps
\* selected_index to the new view (min(old index, len - 1), at least 0).
C16_QueryChangeClampsSelection == [][QueryChange]_vars

\* a typed character has narrowed five items to three and index 2 is kept
C16_Witness ==
    /\ pc = "render" /\ search_mode /\ key = "B"
    /\ search_query = <<"B">> /\ Len(items) = 3
    /\ selected_index = 2 /\ scroll_offset = 0

UpStep ==
    BrowsingKey("UP") =>
        /\ selected_index' = (IF selected_index > 0 THEN selected_index - 1 ELSE 0)
        /\ UNCHANGED <<search_mode, search_query, items>>

DownStep ==
    BrowsingKey("DOWN") =>
        /\ selected_index' =
              (IF items = <<>> THEN 0
               ELSE IF selected_index + 1 < Len(items) THEN selected_index + 1
               ELSE Len(items) - 1)
        /\ UNCHANGED <<search_mode, search_query, items>>

\* C17: UP and DOWN move the selection by one, stop at the first and the last
\* item, and leave the mode, the query and the view unchanged.
C17_UpDownClamp == [][UpStep]_vars /\ [][DownStep]_vars

\* a fifth DOWN on five items has left the selection on the last one
C17_Witness ==
    /\ pc = "render" /\ key = "DOWN" /\ ~search_mode
    /\ downs = 5 /\ Len(items) = 5 /\ selected_index = 4

CharStep ==
    pc = "dispatch" /\ search_mode /\ key \in PrintableBytes =>
        /\ search_query' = Append(search_query, key)
        /\ IsFilterOf(items', original_items, search_query')
        /\ search_mode' /\ pc' = "render" /\ outcome' = "Running"

BackspaceStep ==
    SearchKey("BACKSPACE") =>
        /\ search_mode' /\ pc' = "render" /\ outcome' = "Running"
        /\ IF search_query = <<>>
           THEN UNCHANGED <<search_query, items, selected_index, scroll_offset>>
           ELSE /\ search_query' = SubSeq(search_query, 1, Len(search_query) - 1)
                /\ IsFilterOf(items', original_items, search_query')

EscStep ==
    SearchKey("ESC") =>
        /\ search_query' = <<>> /\ items' = original_items
        /\ ~search_mode' /\ pc' = "render" /\ outcome' = "Running"

\* C18: in search mode a printable character is appended to the query,
\* BACKSPACE drops the last character (nothing on an empty query), both
\* refilter and stay in search mode; ESC clears the query, restores the full
\* list and returns to browsing without ending the session.
C18_SearchEntryTransitions ==
    [][CharStep]_vars /\ [][BackspaceStep]_vars /\ [][EscStep]_vars

\* BACKSPACE has shortened a two-character query to one that still filters
C18_Witness ==
    /\ pc = "render" /\ key = "BACKSPACE" /\ search_mode
    /\ Len(search_query) = 1 /\ items # original_items

SlashDecoded ==
    pc = "read1" /\ stdin # <<>> /\ Head(stdin) = "/" /\ pc' = "dispatch" =>
        key' = IF search_mode THEN "/" ELSE "SEARCH"

SearchStep ==
    BrowsingKey("SEARCH") =>
        search_mode' /\ pc' = "render" /\ UNCHANGED search_query

SlashTyped ==
    SearchKey("/") => search_query' = Append(search_query, "/")

\* C19: '/' is SEARCH only outside search mode, where it enters search mode
\* and keeps the query; in search mode it is a character appended to the query.
C19_SlashIsSearchOnlyWhenBrowsing ==
    [][SlashDecoded]_vars /\ [][SearchStep]_vars /\ [][SlashTyped]_vars

\* max(3, min(total_count, terminal_rows - 16))
VisibleCount(total, r) ==
    LET m == IF total < r - ReservedRows THEN total ELSE r - ReservedRows
    IN  IF m > MinVisible THEN m ELSE MinVisible

RenderStep ==
    pc = "render" /\ pc' = "getkey" =>
        LET vc == VisibleCount(Len(items), rows')
        IN  scroll_offset' =
               IF selected_index < scroll_offset THEN selected_index
               ELSE IF selected_index >= scroll_offset + vc
                    THEN selected_index - vc + 1
               ELSE scroll_offset

Indicators ==
    AfterRender =>
        LET below == Len(items) - scroll_offset - VisibleCount(Len(items), rows)
        IN  /\ MoreAbove <=> scroll_offset > 0
            /\ MoreAbove => MoreAboveCount = scroll_offset
            /\ MoreBelow <=> below > 0
            /\ MoreBelow => MoreBelowCount = below

\* C20: a render shows max(3, min(total, rows - 16)) items, moves the offset
\* to the selection when it is above the window, to selection - count + 1
\* when it is below, and else keeps it; the 'more above' line is shown iff
\* offset > 0 and the 'more below' line iff total - offset - count > 0, each
\* with that count.
C20_ViewportComputation == [][RenderStep]_vars /\ []Indicators

\* on a terminal too short for three lines a render shows one item hidden
\* above and one below
C20_Witness ==
    /\ AfterRender /\ rows = SmallRows /\ rows - ReservedRows < MinVisible
    /\ MoreAbove /\ MoreBelow
    /\ MoreAboveCount = 1 /\ MoreBelowCount = 1

-----------------------------------------------------------------------------
(* The session as a whole *)

\* the loop of select() is running: at clear_screen/_render, in _get_key or at
\* the branch on the key
InLoop == pc \in {"render", "getkey", "read1", "read2", "read3", "dispatch"}

\* C21: from the first render until select returns, at every step of the loop
\* (clearing and rendering between two key reads included) standard input is
\* in raw mode.
C21_RawModeThroughoutSession == drew /\ InLoop => tty = "raw"

\* C22: a value returned by select is an element of the original candidate
\* list and contains the query of that moment as a case-insensitive substring.
C22_ConfirmedIsMatchingCandidate ==
    outcome = "Confirmed" =>
        /\ \E i \in 1..Len(original_items) : original_items[i] = result
        /\ Matches(result, search_query)

\* the second of the items matching "B" has been confirmed under that query
C22_Witness ==
    /\ outcome = "Confirmed" /\ pc = "done"
    /\ search_query = <<"B">> /\ result = s_b /\ selected_index = 1
    /\ Len(original_items) = 5

\* an ESC that meets search mode or a query does not end the session: it
\* leaves browsing mode with an empty query
FirstEscape ==
    pc = "dispatch" /\ key = "ESC" /\ (search_mode \/ search_query # <<>>) =>
        /\ ~search_mode' /\ search_query' = <<>>
        /\ pc' = "render" /\ outcome' = "Running"

\* an ESC that meets browsing mode with an empty query cancels
SecondEscape ==
    BrowsingKey("ESC") /\ search_query = <<>> =>
        outcome' = "Cancelled" /\ result' = <<>> /\ pc' = "done"

\* between an ESC event and the next event the session is browsing the full
\* list
AfterEscape ==
    pc \in {"render", "getkey", "read1", "read2", "read3"} /\ key = "ESC" =>
        ~search_mode /\ search_query = <<>> /\ items = original_items

\* C23: from any state of a running session at most two consecutive ESC events
\* cancel it: the first at most leaves search mode and clears the query, and an
\* ESC in browsing mode with an empty query cancels.
C23_TwoEscapesCancel ==
    [][FirstEscape]_vars /\ [][SecondEscape]_vars /\ []AfterEscape

\* one ESC event has been handled without ending the session and the first
\* byte of the next ESC has been read
C23_Witness ==
    /\ pc = "read2" /\ key = "ESC" /\ outcome = "Running"
    /\ ~search_mode /\ search_query = <<>>

\* no key handled in search mode ends the session
NoEndFromSearch ==
    pc = "dispatch" /\ search_mode => pc' = "render" /\ outcome' = "Running"

InertEvents == { "QUIT", "SEARCH", "UP", "DOWN", "LEFT", "RIGHT" }

InertInSearch ==
    pc = "dispatch" /\ search_mode /\ key \in InertEvents =>
        UNCHANGED <<search_mode, search_query, items, selected_index,
                    scroll_offset>>

\* C24: in search mode no single key event ends the session, and QUIT
\* (Ctrl-C), SEARCH, UP, DOWN, LEFT and RIGHT leave the mode, the query, the
\* view, the selected index and the scroll offset unchanged.
C24_SearchEntryIgnoresNavigation ==
    [][NoEndFromSearch]_vars /\ [][InertInSearch]_vars

\* Ctrl-C has been handled in the middle of a search and the search goes on
C24_Witness ==
    /\ pc = "render" /\ search_mode /\ key = "QUIT" /\ outcome = "Running"
    /\ search_query = <<"B">> /\ Len(items) = 3 /\ selected_index = 2

-----------------------------------------------------------------------------
(* A session on a terminal whose height does not change *)

InitFixed ==
    /\ original_items \in CandidateLists
    /\ items = original_items
    /\ current_marker \in Markers
    /\ selected_index = InitialIndex(original_items, current_marker)
    /\ scroll_offset = 0
    /\ search_mode = FALSE
    /\ search_query = <<>>
    /\ pc = "start"
    /\ key = ""
    /\ stdin = <<>>
    /\ tty \in TtyModes
    /\ old_settings = ""
    /\ prior_tty = tty
    /\ cursor = "shown"
    /\ rows \in TermRows
    /\ outcome = "Running"
    /\ result = <<>>
    /\ hid = FALSE
    /\ drew = FALSE
    /\ warned = FALSE
    /\ nread = 0
    /\ downs = 0

\* clear_screen(); self._render() when get_terminal_size() answers as before
RenderFixed ==
    /\ pc = "render"
    /\ scroll_offset' =
          NewOffset(selected_index, scroll_offset, MaxVisible(Len(items), rows))
    /\ drew' = TRUE
    /\ pc' = "getkey"
    /\ UNCHANGED <<original_items, items, current_marker, selected_index,
                   search_mode, search_query, key, stdin, tty, old_settings,
                   prior_tty, cursor, rows, outcome, result, hid, warned, nread,
                   downs>>

NextFixed ==
    \/ Start
    \/ RenderFixed
    \/ RenderRaise
    \/ GetKeyBegin
    \/ RawModeRaise
    \/ Type
    \/ Read1
    \/ Read2
    \/ Read3
    \/ ReadRaise
    \/ SearchEnter
    \/ SearchEsc
    \/ SearchBackspace
    \/ SearchChar
    \/ SearchOther
    \/ BrowseUp
    \/ BrowseDown
    \/ BrowseEnter
    \/ BrowseSearch
    \/ BrowseCancel
    \/ BrowseOther

SpecFixed == InitFixed /\ [][NextFixed]_vars

\* the count of the 'more below' line, 0 when the line is not printed
ShownBelow == IF MoreBelow THEN MoreBelowCount ELSE 0

\* C25: on a terminal of fixed height, after every render scroll_offset >= 0
\* and scroll_offset + visible_count <= max(len(view), visible_count); a view
\* of at least visible_count items has a 'more below' count that is not
\* negative, and the items above, visible and below add up to the total.
C25_WindowWithinView ==
    AfterRender =>
        LET vc == VisibleCount(Len(items), rows)
        IN  /\ scroll_offset >= 0
            /\ scroll_offset + vc <= Max(Len(items), vc)
            /\ Len(items) >= vc => MoreBelowCount >= 0
            /\ MoreAboveCount + Cardinality(VisibleIndexes) + ShownBelow
                  = Len(items)

\* the window has reached the end of a view longer than the window
C25_Witness ==
    /\ AfterRender /\ rows = SmallRows /\ Len(items) = 5
    /\ scroll_offset = 2 /\ selected_index = 4
    /\ MoreAbove /\ ~MoreBelow /\ MoreBelowCount = 0

====
